---- MODULE Spec2Model ----
(***************************************************************************)
(* Netflix catalog service: the CSV bulk importer (app/services/           *)
(* data_loader.py), the statistics and facet derivations, and the          *)
(* authenticated /content routes (app/routers/netflix.py).                 *)
(*                                                                         *)
(* Text is a sequence of one-character strings, so that split(','),        *)
(* strip(), sorted() and ILIKE are computed character by character.        *)
(* A nullable column holds a set: {} is NULL/None and {v} is the value v.  *)
(***************************************************************************)
EXTENDS Integers, Sequences, FiniteSets, TLC

VARIABLES
    store,      \* committed rows of netflix_content, in commit order
    nextId,     \* next value of the primary-key sequence
    autoflush,  \* the Session's autoflush setting (app.core.database)
    pc,         \* per import request: its position in load_netflix_data_from_csv
    file,       \* per import request: the CSV file it reads
    idx,        \* per import request: number of rows of df already iterated
    inserted,   \* per import request: records_inserted
    skipped,    \* per import request: records_skipped
    pending,    \* per import request: objects db.add()-ed and not yet flushed
    flushed,    \* per import request: rows INSERTed in the open transaction
    blocked,    \* per import request: the id its INSERT took before it had to wait
    result,     \* per import request: what load_data returned or raised
    base,       \* per import request: the number of rows in the store when it started
    solo,       \* per import request: no other import overlapped it
    prev,       \* per import request: doneFiles when it started
    doneFiles,  \* the imports that returned successfully: file and total_content
    tally,      \* per import: the results of the queries get_statistics(db) has made
    raised,     \* per import: the exception its except clause has caught
    request,    \* the API request being served
    response,   \* the API response to it
    reader      \* the handler of a statistics request under way: its position
                \* and the results of the queries it has made

importVars == <<store, nextId, autoflush, pc, file, idx, inserted, skipped,
                pending, flushed, blocked, result, base, solo, prev, doneFiles, tally,
                raised>>
apiVars == <<request, response, reader>>
vars == <<store, nextId, autoflush, pc, file, idx, inserted, skipped,
          pending, flushed, blocked, result, base, solo, prev, doneFiles, tally, raised,
          request, response, reader>>

(***************************************************************************)
(* Bounds of the model.                                                    *)
(***************************************************************************)
MaxTail == 2
MaxStore == 3
\* the rows of a file posted while a file of two batches is imported
MaxRaceTail == 1

(***************************************************************************)
(* Optional values and text.                                               *)
(***************************************************************************)
NULL == {}
Val(v) == {v}

Range(s) == {s[i] : i \in 1..Len(s)}

Min(a, b) == IF a <= b THEN a ELSE b
Max(a, b) == IF a >= b THEN a ELSE b

Digits == <<"0", "1", "2", "3", "4", "5", "6", "7", "8", "9">>

(***************************************************************************)
(* The CSV file.  A text cell is a string ("" when the cell is blank); the *)
(* release_year cell is blank, a non-numeric text, or a decimal number     *)
(* kept in tenths (20205 is 2020.5, -15 is -1.5).                          *)
(***************************************************************************)
Movie == <<"M", "o", "v", "i", "e">>
TVShow == <<"T", "V", " ", "S", "h", "o", "w">>

BlankYear == [kind |-> "blank", tenths |-> 0]
TextYear == [kind |-> "text", tenths |-> 0]
NumYear(t) == [kind |-> "num", tenths |-> t]

CsvRow(sid, ty, ti, yr) ==
    [show_id |-> sid, type |-> ty, title |-> ti, director |-> <<>>, cast |-> <<>>,
     country |-> <<>>, date_added |-> <<>>, release_year |-> yr, rating |-> <<>>,
     duration |-> <<>>, listed_in |-> <<>>, description |-> <<>>]

S1 == <<"s", "1">>
S2 == <<"s", "2">>

ImportRows ==
    { CsvRow(S1, Movie, <<"A">>, NumYear(20200)),
      CsvRow(S1, TVShow, <<"B">>, NumYear(0)),
      CsvRow(S2, <<>>, <<>>, NumYear(-15)) }

\* the release_year cells the filler rows cycle through
YearCells == <<NumYear(20007), BlankYear, TextYear, NumYear(0), NumYear(-10),
               NumYear(5), NumYear(15), NumYear(-20210)>>

\* Row i of the filler block that fills a batch: distinct ids f01, f02, ...
FillerRow(i) ==
    CsvRow(<<"f", Digits[((i \div 10) % 10) + 1], Digits[(i % 10) + 1]>>,
           Movie, <<"F">>, YearCells[(i % Len(YearCells)) + 1])

RECURSIVE SeqsUpTo(_, _)
SeqsUpTo(S, n) ==
    IF n = 0 THEN {<<>>}
    ELSE LET shorter == SeqsUpTo(S, n - 1)
         IN shorter \cup {Append(t, x) : t \in shorter, x \in S}

batch_size == 100

\* A file is head filler rows followed by the rows of tail.
ShortFiles == {[head |-> 0, tail |-> t] : t \in SeqsUpTo(ImportRows, MaxTail)}
\* a file of two batches: batch_size - 1 filler rows and s1, then s2
DistinctLongFile ==
    [head |-> batch_size - 1,
     tail |-> <<CsvRow(S1, Movie, <<"A">>, NumYear(20200)), CsvRow(S2, <<>>, <<>>, NumYear(-15))>>]
\* a file of two batches with s1 in both: the last row of batch 1 and the
\* first row of batch 2
RepeatLongFile ==
    [head |-> batch_size - 1,
     tail |-> <<CsvRow(S1, Movie, <<"A">>, NumYear(20200)), CsvRow(S1, TVShow, <<"B">>, NumYear(0))>>]
LongFiles == {DistinctLongFile, RepeatLongFile}
\* a file of three rows with distinct ids
ScenarioFile == [head |-> 3, tail |-> <<>>]
Files == ShortFiles \cup {ScenarioFile} \cup LongFiles
\* the files posted while a file of two batches is imported: rows with the
\* id of its first row, which its import holds until it commits batch 1
RaceFiles == {[head |-> 0, tail |-> t] : t \in SeqsUpTo({FillerRow(1)}, MaxRaceTail)}

FileLen(f) == f.head + Len(f.tail)
CsvRowAt(f, i) == IF i <= f.head THEN FillerRow(i) ELSE f.tail[i - f.head]

(***************************************************************************)
(* Normalisation of the data frame (data_loader.py lines 32-39).           *)
(***************************************************************************)
\* pd.to_numeric(errors='coerce'): a number, or NaN (NULL) for anything else
to_numeric(cell) == IF cell.kind = "num" THEN Val(cell.tenths) ELSE NULL

\* fillna(0)
fillna0(x) == IF x = NULL THEN 0 ELSE CHOOSE t \in x : TRUE

\* astype(int): the fractional part is dropped, rounding toward zero
astype_int(t) == IF t >= 0 THEN t \div 10 ELSE -((-t) \div 10)

\* a row of df: release_year converted, the text cells as they are
Normalise(r) == [r EXCEPT !.release_year = astype_int(fillna0(to_numeric(r.release_year)))]

\* the row of df that row i of the file becomes
DfRow(f, i) == Normalise(CsvRowAt(f, i))

(***************************************************************************)
(* NetflixContent(...) as the importer builds it (lines 63-76): an empty   *)
(* cell and a year that is not positive become None.  The primary key is   *)
(* assigned when the row is INSERTed.                                      *)
(***************************************************************************)
CellOrNone(c) == IF c # <<>> THEN Val(c) ELSE NULL

YearOrNoneNonNegative(y) == IF y >= 0 THEN Val(y) ELSE NULL
YearOrNone(y) == IF y > 0 THEN Val(y) ELSE NULL

NetflixContent(row) ==
    [id |-> NULL,
     show_id |-> row.show_id,
     type |-> CellOrNone(row.type),
     title |-> CellOrNone(row.title),
     director |-> CellOrNone(row.director),
     cast |-> CellOrNone(row.cast),
     country |-> CellOrNone(row.country),
     date_added |-> CellOrNone(row.date_added),
     release_year |-> YearOrNone(row.release_year),
     rating |-> CellOrNone(row.rating),
     duration |-> CellOrNone(row.duration),
     listed_in |-> CellOrNone(row.listed_in),
     description |-> CellOrNone(row.description)]

(***************************************************************************)
(* Python and SQL text operations, character by character.                 *)
(***************************************************************************)
\* the characters of the model in code-point order (the order sorted() uses)
Chars == <<"\t", " ", "%", ",", "0", "1", "2", "3", "4", "5", "6", "7", "8", "9",
           "A", "B", "C", "D", "E", "F", "G", "H", "I", "J", "K", "L", "M", "N",
           "O", "P", "Q", "R", "S", "T", "U", "V", "W", "X", "Y", "Z", "\\", "_",
           "a", "b", "c", "d", "e", "f", "g", "h", "i", "j", "k", "l", "m", "n",
           "o", "p", "q", "r", "s", "t", "u", "v", "w", "x", "y", "z">>
Code(c) == CHOOSE i \in 1..Len(Chars) : Chars[i] = c

UpperCase == <<"A", "B", "C", "D", "E", "F", "G", "H", "I", "J", "K", "L", "M", "N",
               "O", "P", "Q", "R", "S", "T", "U", "V", "W", "X", "Y", "Z">>
LowerCase == <<"a", "b", "c", "d", "e", "f", "g", "h", "i", "j", "k", "l", "m", "n",
               "o", "p", "q", "r", "s", "t", "u", "v", "w", "x", "y", "z">>
Lower(c) ==
    IF \E i \in 1..Len(UpperCase) : UpperCase[i] = c
    THEN LowerCase[CHOOSE i \in 1..Len(UpperCase) : UpperCase[i] = c]
    ELSE c
LowerStr(s) == [i \in 1..Len(s) |-> Lower(s[i])]

\* str.split(sep): the pieces between separators, empty pieces included
RECURSIVE Split(_, _)
Split(s, sep) ==
    IF \E i \in 1..Len(s) : s[i] = sep
    THEN LET i == CHOOSE j \in 1..Len(s) : s[j] = sep /\ \A k \in 1..(j - 1) : s[k] # sep
         IN <<SubSeq(s, 1, i - 1)>> \o Split(SubSeq(s, i + 1, Len(s)), sep)
    ELSE <<s>>

\* str.strip(): leading and trailing whitespace removed
IsSpace(c) == c \in {" ", "\t"}
Strip(s) ==
    IF \A i \in 1..Len(s) : IsSpace(s[i]) THEN <<>>
    ELSE LET a == CHOOSE i \in 1..Len(s) : ~IsSpace(s[i]) /\ \A k \in 1..(i - 1) : IsSpace(s[k])
             b == CHOOSE i \in 1..Len(s) : ~IsSpace(s[i]) /\ \A k \in (i + 1)..Len(s) : IsSpace(s[k])
         IN SubSeq(s, a, b)

\* a < b in the order Python compares strings
StrLess(a, b) ==
    \E i \in 1..(Min(Len(a), Len(b)) + 1) :
        /\ \A k \in 1..(i - 1) : a[k] = b[k]
        /\ \/ i = Len(a) + 1 /\ i <= Len(b)
           \/ i <= Len(a) /\ i <= Len(b) /\ Code(a[i]) < Code(b[i])

\* sorted(list(S)) for a set S of strings
RECURSIVE Sorted(_)
Sorted(S) ==
    IF S = {} THEN <<>>
    ELSE LET m == CHOOSE x \in S : \A y \in S \ {x} : StrLess(x, y)
         IN <<m>> \o Sorted(S \ {m})

\* SQL LIKE: % is any run of characters, _ is any one character, and a
\* backslash makes the character after it literal
RECURSIVE Like(_, _)
Like(pat, s) ==
    IF pat = <<>> THEN s = <<>>
    ELSE IF pat[1] = "%"
         THEN \E k \in 0..Len(s) : Like(Tail(pat), SubSeq(s, k + 1, Len(s)))
    ELSE IF pat[1] = "_"
         THEN s # <<>> /\ Like(Tail(pat), Tail(s))
    ELSE IF pat[1] = "\\"
         THEN /\ Len(pat) >= 2
              /\ s # <<>>
              /\ s[1] = pat[2]
              /\ Like(SubSeq(pat, 3, Len(pat)), Tail(s))
    ELSE s # <<>> /\ s[1] = pat[1] /\ Like(Tail(pat), Tail(s))

\* column.ilike(pattern): NULL never matches
ILike(col, pat) == \E v \in col : Like(LowerStr(pat), LowerStr(v))

\* f"%{x}%"
Wrap(x) == <<"%">> \o x \o <<"%">>

\* x occurs in s, character by character
Contains(s, x) == \E k \in 0..(Len(s) - Len(x)) : SubSeq(s, k + 1, k + Len(x)) = x

(***************************************************************************)
(* Statistics and facets (data_loader.py get_statistics, get_unique_values *)
(* and the same code in the router).  S is the sequence of rows a query    *)
(* sees, in the order the store returns them.                              *)
(***************************************************************************)
\* the values of a column for which  column != ''  is true (NULL drops out)
NonEmptyColumn(S, col) ==
    LET rows == SelectSeq(S, LAMBDA r : r[col] # NULL /\ r[col] # Val(<<>>))
    IN [i \in 1..Len(rows) |-> CHOOSE v \in rows[i][col] : TRUE]

RECURSIVE Flatten(_)
Flatten(ss) == IF ss = <<>> THEN <<>> ELSE Head(ss) \o Flatten(Tail(ss))

\* [cat.strip() for cat in row[0].split(',')] for one value
Tokens(v) == LET parts == Split(v, ",") IN [i \in 1..Len(parts) |-> Strip(parts[i])]

\* every token of every row, rows with a falsy value skipped (if row[0])
ColumnTokens(S, col) ==
    LET vals == SelectSeq(NonEmptyColumn(S, col), LAMBDA v : v # <<>>)
    IN Flatten([i \in 1..Len(vals) |-> Tokens(vals[i])])

\* category_counts: the keys in the order they were first inserted, and the counts
RECURSIVE FirstSeen(_)
FirstSeen(ts) ==
    IF ts = <<>> THEN <<>>
    ELSE LET init == FirstSeen(SubSeq(ts, 1, Len(ts) - 1))
             last == ts[Len(ts)]
         IN IF last \in Range(init) THEN init ELSE Append(init, last)
Occurrences(ts, t) == Cardinality({i \in 1..Len(ts) : ts[i] = t})

\* sorted(items, key=count, reverse=True): stable, equal counts keep their order
RECURSIVE SortByCountDesc(_)
SortByCountDesc(items) ==
    IF items = <<>> THEN <<>>
    ELSE LET i == CHOOSE j \in 1..Len(items) :
                      /\ \A k \in 1..Len(items) : items[k].count <= items[j].count
                      /\ \A k \in 1..(j - 1) : items[k].count < items[j].count
         IN <<items[i]>> \o SortByCountDesc(SubSeq(items, 1, i - 1) \o SubSeq(items, i + 1, Len(items)))

top_categories == 20

by_category(S) ==
    LET ts == ColumnTokens(S, "listed_in")
        keys == FirstSeen(ts)
        items == [i \in 1..Len(keys) |-> [category |-> keys[i], count |-> Occurrences(ts, keys[i])]]
        sorted_categories == SortByCountDesc(items)
    IN SubSeq(sorted_categories, 1, Min(top_categories, Len(sorted_categories)))

\* GROUP BY rating ORDER BY count DESC: the database may return rows of equal
\* count in any order
RECURSIVE Perms(_)
Perms(X) ==
    IF X = {} THEN {<<>>}
    ELSE UNION {{<<x>> \o t : t \in Perms(X \ {x})} : x \in X}
by_rating_orders(S) ==
    LET rs == NonEmptyColumn(S, "rating")
        items == {[rating |-> r, count |-> Occurrences(rs, r)] : r \in Range(rs)}
    IN {o \in Perms(items) : \A i \in 1..(Len(o) - 1) : o[i].count >= o[i + 1].count}

CountWhereType(S, ty) == Cardinality({i \in 1..Len(S) : S[i].type = Val(ty)})

\* get_statistics(db), with the order br the database gave the rating groups
get_statistics(S, br) ==
    [total_content |-> Len(S),
     movies |-> CountWhereType(S, Movie),
     tv_shows |-> CountWhereType(S, TVShow),
     by_rating |-> br,
     by_category |-> by_category(S)]

\* the sorted distinct tokens of a comma-joined column
unique_tokens(S, col) == Sorted(Range(ColumnTokens(S, col)))

unique_ratings(S) == Sorted({r \in Range(NonEmptyColumn(S, "rating")) : r # <<>>})

\* get_unique_values(db)
get_unique_values(S) ==
    [ratings |-> unique_ratings(S),
     countries |-> unique_tokens(S, "country"),
     categories |-> unique_tokens(S, "listed_in")]

(***************************************************************************)
(* The importer, load_netflix_data_from_csv, one step per database         *)
(* round trip: an INSERT of a flush, a SELECT, a COMMIT, a ROLLBACK.       *)
(* Each import request has its own Session and transaction.                *)
(* Under READ COMMITTED a query sees the committed rows and the rows its   *)
(* own transaction has INSERTed.  An INSERT of a show_id that another open *)
(* transaction has INSERTed waits for that transaction to end.             *)
(***************************************************************************)
\* the import requests, numbered in the order they arrive
Procs == {1, 2}

NoFile == [head |-> 0, tail |-> <<>>]
NoResult == [status |-> "none"]
\* the 500 response, whose detail is the text of the exception, and for the
\* record: the batch that was being processed, whether the rollback discarded
\* rows of it, the size of the store then
ErrorResult(e, k, n, t) ==
    [status |-> "error", http |-> 500, detail |-> e, batch |-> k, dropped |-> n > 0,
     total |-> t]

Keys(rows) == {rows[i].show_id : i \in 1..Len(rows)}

HeldByOther(p, k) == \E q \in Procs \ {p} : k \in Keys(flushed[q])

\* show_id = Column(String, unique=True): the INSERT by p of a row with
\* show_id k meets a row with the same show_id that p can see
NoUniqueConstraint(p, k) == FALSE
UniqueViolation(p, k) == k \in Keys(store) \/ k \in Keys(flushed[p])

\* what the INSERT of the first pending object of p comes to: it is done,
\* it fails on the unique index, or it waits for the transaction that has
\* INSERTed the same show_id to end
InsertOutcome(p) ==
    LET k == Head(pending[p]).show_id
    IN IF UniqueViolation(p, k) THEN "error"
       ELSE IF HeldByOther(p, k) THEN "wait"
       ELSE "ok"

\* the id of the INSERT of the first pending object of p: the next value of
\* the sequence, taken when the statement is executed
InsertId(p) == IF blocked[p] = NULL THEN nextId ELSE CHOOSE n \in blocked[p] : TRUE

\* the sequence after that INSERT: a value once taken is never given back
SequenceAfter(p) == IF blocked[p] = NULL THEN nextId + 1 ELSE nextId

\* the INSERTs take their primary keys from the sequence
AssignIds(rows, n) == [i \in 1..Len(rows) |-> [rows[i] EXCEPT !.id = Val(n + i - 1)]]

\* the positions of get_statistics(db): before each of its five queries
StatsPcs == {"stats", "movie_count", "tv_show_count", "rating_stats", "genres_query"}

\* p is between its first statement and its return or its except clause
Active(p) == pc[p] \in {"row", "select", "commit"} \cup StatsPcs

\* the transaction of p is open: p is active, or in its except clause before
\* the ROLLBACK
Open(p) == Active(p) \/ pc[p] = "except"

\* end_idx of the batch that holds row i
BatchEndEveryRow(f, i) == i
BatchEnd(f, i) == Min((((i - 1) \div batch_size) + 1) * batch_size, FileLen(f))

\* the number of the batch p is in: 1, 2, ...; after the last commit, one more
BatchNo(p) ==
    IF pc[p] \in {"row", "select"} THEN (idx[p] \div batch_size) + 1
    ELSE IF pc[p] = "commit" THEN ((idx[p] - 1) \div batch_size) + 1
    ELSE ((FileLen(file[p]) + batch_size - 1) \div batch_size) + 1

\* request p arrives: the requests before it have arrived
Arrives(p) == pc[p] = "idle" /\ \A o \in Procs : o < p => pc[o] # "idle"

\* lines 22-47: read the file, normalise it, zero the counters
StartImport(p, f) ==
    /\ Arrives(p)
    /\ pc' = [pc EXCEPT ![p] = IF FileLen(f) = 0 THEN "stats" ELSE "row"]
    /\ file' = [file EXCEPT ![p] = f]
    /\ idx' = [idx EXCEPT ![p] = 0]
    /\ inserted' = [inserted EXCEPT ![p] = 0]
    /\ skipped' = [skipped EXCEPT ![p] = 0]
    /\ base' = [base EXCEPT ![p] = Len(store)]
    /\ prev' = [prev EXCEPT ![p] = doneFiles]
    /\ solo' = [q \in Procs |->
                   IF q = p THEN \A o \in Procs \ {p} : ~Open(o)
                   ELSE IF Open(q) THEN FALSE ELSE solo[q]]
    /\ UNCHANGED <<store, nextId, autoflush, pending, flushed, blocked, result, doneFiles,
                   tally, raised>>
    /\ UNCHANGED apiVars

\* line 25 raises: the file cannot be read
ReadError(p) ==
    /\ Arrives(p)
    /\ pc' = [pc EXCEPT ![p] = "failed"]
    /\ result' = [result EXCEPT ![p] = ErrorResult("ReadError", 0, 0, Len(store))]
    /\ solo' = [solo EXCEPT ![p] = \A o \in Procs \ {p} : ~Open(o)]
    /\ base' = [base EXCEPT ![p] = Len(store)]
    /\ UNCHANGED <<store, nextId, autoflush, file, idx, inserted, skipped, pending,
                   flushed, blocked, prev, doneFiles, tally, raised>>
    /\ UNCHANGED apiVars

\* the counters after a row (lines 61-80)
SkippedNotCounted(n, existing) == n
SkippedAfter(n, existing) == IF existing THEN n + 1 ELSE n
InsertedAlways(n, existing) == n + 1
InsertedAfter(n, existing) == IF existing THEN n ELSE n + 1

\* the session flushes before the query of line 57 (autoflush) and in
\* db.commit() (line 83)
MustFlush(p) ==
    \/ pc[p] = "row" /\ autoflush /\ pending[p] # <<>>
    \/ pc[p] = "commit" /\ pending[p] # <<>>

\* one INSERT of a flush: the first pending object of p becomes a row of its
\* transaction; the flush sends the objects in the order they were added
Insert(p) ==
    /\ MustFlush(p)
    /\ InsertOutcome(p) = "ok"
    /\ flushed' = [flushed EXCEPT ![p] =
                       Append(flushed[p], [Head(pending[p]) EXCEPT !.id = Val(InsertId(p))])]
    /\ nextId' = SequenceAfter(p)
    /\ blocked' = [blocked EXCEPT ![p] = NULL]
    /\ pending' = [pending EXCEPT ![p] = Tail(pending[p])]
    /\ pc' = [pc EXCEPT ![p] =
                 IF pc[p] = "row" /\ Tail(pending[p]) = <<>> THEN "select" ELSE pc[p]]
    /\ UNCHANGED <<store, autoflush, file, idx, inserted, skipped, result, base, solo,
                   prev, doneFiles, tally, raised>>
    /\ UNCHANGED apiVars

\* the INSERT has taken its id and waits for another transaction to end
InsertWaits(p) ==
    /\ MustFlush(p)
    /\ blocked[p] = NULL
    /\ InsertOutcome(p) = "wait"
    /\ blocked' = [blocked EXCEPT ![p] = Val(nextId)]
    /\ nextId' = nextId + 1
    /\ UNCHANGED <<store, autoflush, pc, file, idx, inserted, skipped, pending, flushed,
                   result, base, solo, prev, doneFiles, tally, raised>>
    /\ UNCHANGED apiVars

\* lines 57-80 for one row: the SELECT of the existence query, after the
\* flush when there was one, then add or skip
ProcessRow(p) ==
    /\ \/ pc[p] = "select"
       \/ pc[p] = "row" /\ ~MustFlush(p)
    /\ LET row == DfRow(file[p], idx[p] + 1)
           existing == row.show_id \in (Keys(store) \cup Keys(flushed[p]))
       IN /\ pending' = [pending EXCEPT ![p] =
                            IF existing THEN pending[p]
                            ELSE Append(pending[p], NetflixContent(row))]
          /\ inserted' = [inserted EXCEPT ![p] = InsertedAfter(inserted[p], existing)]
          /\ skipped' = [skipped EXCEPT ![p] = SkippedAfter(skipped[p], existing)]
          /\ idx' = [idx EXCEPT ![p] = idx[p] + 1]
          /\ pc' = [pc EXCEPT ![p] =
                       IF idx[p] + 1 = BatchEnd(file[p], idx[p] + 1) THEN "commit" ELSE "row"]
    /\ UNCHANGED <<store, nextId, autoflush, file, flushed, blocked, result, base, solo,
                   prev, doneFiles, tally, raised>>
    /\ UNCHANGED apiVars

\* what db.commit() makes durable: the rows of the transaction
ClearedThenCommitted(p, rows) == rows
Committed(p, rows) == store \o rows

\* line 83: the COMMIT of db.commit(), after its flush
Commit(p) ==
    /\ pc[p] = "commit"
    /\ ~MustFlush(p)
    /\ store' = Committed(p, flushed[p])
    /\ flushed' = [flushed EXCEPT ![p] = <<>>]
    /\ pc' = [pc EXCEPT ![p] = IF idx[p] < FileLen(file[p]) THEN "row" ELSE "stats"]
    /\ UNCHANGED <<nextId, autoflush, file, idx, inserted, skipped, pending, blocked,
                   result, base, solo, prev, doneFiles, tally, raised>>
    /\ UNCHANGED apiVars

\* get_statistics(db) has made no query
NoTally == [total_count |-> 0, movie_count |-> 0, tv_show_count |-> 0, rating_stats |-> <<>>]

\* what db.rollback() leaves of the rows the transaction had INSERTed
RollbackKeeps(p) == flushed[p]
RolledBack(p) == <<>>

\* no exception has been caught
NoException == NULL

\* A statement of p fails and the exception reaches the except clause of
\* line 98.  The transaction keeps the rows it has INSERTed until the
\* ROLLBACK; a flush that fails empties the session.
Raise(p, seq, e) ==
    /\ nextId' = seq
    /\ blocked' = [blocked EXCEPT ![p] = NULL]
    /\ pending' = [pending EXCEPT ![p] = IF MustFlush(p) THEN <<>> ELSE pending[p]]
    /\ pc' = [pc EXCEPT ![p] = "except"]
    /\ raised' = [raised EXCEPT ![p] =
                       Val([detail |-> e, batch |-> BatchNo(p),
                            dropped |-> Len(pending[p]) + Len(flushed[p])])]
    /\ UNCHANGED <<store, autoflush, file, idx, inserted, skipped, flushed, result, base,
                   solo, prev, doneFiles, tally>>
    /\ UNCHANGED apiVars

\* an INSERT of a flush meets the unique constraint: IntegrityError.  The
\* statement has taken its id.
IntegrityError(p) ==
    /\ MustFlush(p)
    /\ InsertOutcome(p) = "error"
    /\ Raise(p, SequenceAfter(p), "IntegrityError")

\* any statement can fail for reasons outside the program (connection lost,
\* deadlock victim, statement timeout); an INSERT that fails so has taken
\* its id or has not
StoreError(p) ==
    /\ Active(p)
    /\ \E seq \in {nextId} \cup (IF MustFlush(p) THEN {SequenceAfter(p)} ELSE {}) :
          Raise(p, seq, "OperationalError")

\* lines 99-101 and main.py 116-121: log, the ROLLBACK of db.rollback(),
\* re-raise; load_data turns the exception into a 500 response
Rollback(p) ==
    /\ pc[p] = "except"
    /\ store' = store \o RolledBack(p)
    /\ pending' = [pending EXCEPT ![p] = <<>>]
    /\ flushed' = [flushed EXCEPT ![p] = <<>>]
    /\ pc' = [pc EXCEPT ![p] = "failed"]
    /\ result' = [result EXCEPT ![p] =
                       LET e == CHOOSE x \in raised[p] : TRUE
                       IN ErrorResult(e.detail, e.batch, e.dropped, Len(store'))]
    /\ raised' = [raised EXCEPT ![p] = NoException]
    /\ idx' = [idx EXCEPT ![p] = 0]
    /\ inserted' = [inserted EXCEPT ![p] = 0]
    /\ skipped' = [skipped EXCEPT ![p] = 0]
    /\ tally' = [tally EXCEPT ![p] = NoTally]
    /\ UNCHANGED <<nextId, autoflush, file, blocked, base, solo, prev, doneFiles>>
    /\ UNCHANGED apiVars

\* one query of get_statistics(db), called at line 87
Query(p, at, then, t) ==
    /\ pc[p] = at
    /\ pc' = [pc EXCEPT ![p] = then]
    /\ tally' = [tally EXCEPT ![p] = t]
    /\ UNCHANGED <<store, nextId, autoflush, file, idx, inserted, skipped, pending, flushed,
                   blocked, result, base, solo, prev, doneFiles, raised>>
    /\ UNCHANGED apiVars

\* line 108: total_count
TotalCount(p) ==
    Query(p, "stats", "movie_count", [tally[p] EXCEPT !.total_count = Len(store)])

\* line 109: movie_count
MovieCount(p) ==
    Query(p, "movie_count", "tv_show_count",
          [tally[p] EXCEPT !.movie_count = CountWhereType(store, Movie)])

\* line 110: tv_show_count
TvShowCount(p) ==
    Query(p, "tv_show_count", "rating_stats",
          [tally[p] EXCEPT !.tv_show_count = CountWhereType(store, TVShow)])

\* lines 113-122: rating_stats
RatingStats(p) ==
    \E br \in by_rating_orders(store) :
        Query(p, "rating_stats", "genres_query", [tally[p] EXCEPT !.rating_stats = br])

\* lines 126-152 and 89-96: genres_query, the category counts, the statistics
\* and the success result
ImportDone(p) ==
    /\ pc[p] = "genres_query"
    /\ LET stats == [total_content |-> tally[p].total_count,
                     movies |-> tally[p].movie_count,
                     tv_shows |-> tally[p].tv_show_count,
                     by_rating |-> tally[p].rating_stats,
                     by_category |-> by_category(store)]
       IN /\ result' = [result EXCEPT ![p] =
                           [status |-> "success",
                            records_processed |-> FileLen(file[p]),
                            records_inserted |-> inserted[p],
                            records_updated |-> 0,
                            records_skipped |-> skipped[p],
                            statistics |-> stats]]
          /\ doneFiles' = doneFiles \cup {[file |-> file[p], total |-> stats.total_content]}
    /\ pc' = [pc EXCEPT ![p] = "done"]
    /\ idx' = [idx EXCEPT ![p] = 0]
    /\ inserted' = [inserted EXCEPT ![p] = 0]
    /\ skipped' = [skipped EXCEPT ![p] = 0]
    /\ tally' = [tally EXCEPT ![p] = NoTally]
    /\ UNCHANGED <<store, nextId, autoflush, file, pending, flushed, blocked, base, solo,
                   prev, raised>>
    /\ UNCHANGED apiVars

NoRequest == [route |-> "none"]
\* The body of a response: the records of a page or of a lookup, the names of
\* a facet list, the statistics, or the three facet lists of /filters.
NoBody == [records |-> <<>>, names |-> <<>>, stats |-> NULL, facets |-> NULL]
NoResponse == [status |-> "none", body |-> NoBody, read |-> FALSE]
\* no statistics request is under way
NoReader == [pc |-> 0, total_count |-> 0, movie_count |-> 0, tv_show_count |-> 0,
             rating_stats |-> <<>>]

Init ==
    /\ store = <<>>
    /\ nextId = 1
    /\ autoflush \in BOOLEAN
    /\ pc = [p \in Procs |-> "idle"]
    /\ file = [p \in Procs |-> NoFile]
    /\ idx = [p \in Procs |-> 0]
    /\ inserted = [p \in Procs |-> 0]
    /\ skipped = [p \in Procs |-> 0]
    /\ pending = [p \in Procs |-> <<>>]
    /\ flushed = [p \in Procs |-> <<>>]
    /\ blocked = [p \in Procs |-> NULL]
    /\ result = [p \in Procs |-> NoResult]
    /\ base = [p \in Procs |-> 0]
    /\ solo = [p \in Procs |-> TRUE]
    /\ prev = [p \in Procs |-> {}]
    /\ doneFiles = {}
    /\ tally = [p \in Procs |-> NoTally]
    /\ raised = [p \in Procs |-> NoException]
    /\ request = NoRequest
    /\ response = NoResponse
    /\ reader = NoReader

\* The files the requests of a run post, in the order the requests arrive.
\* A request whose file could not be read stands for the empty file.
Posts(W, p) == {w[p] : w \in {v \in W : \A o \in Procs : o < p => v[o] = file[o]}}

\* The steps of the imports of the workloads W.  The imports interleave
\* freely, round trip by round trip.
Step(W) ==
    \/ \E p \in {q \in Procs : Arrives(q)} : \E f \in Posts(W, p) : StartImport(p, f)
    \/ \E p \in Procs : ReadError(p)
    \/ \E p \in Procs : Insert(p)
    \/ \E p \in Procs : InsertWaits(p)
    \/ \E p \in Procs : ProcessRow(p)
    \/ \E p \in Procs : Commit(p)
    \/ \E p \in Procs : IntegrityError(p)
    \/ \E p \in Procs : StoreError(p)
    \/ \E p \in Procs : Rollback(p)
    \/ \E p \in Procs : TotalCount(p)
    \/ \E p \in Procs : MovieCount(p)
    \/ \E p \in Procs : TvShowCount(p)
    \/ \E p \in Procs : RatingStats(p)
    \/ \E p \in Procs : ImportDone(p)

\* two short files; the file of three rows, twice; a file of two batches
\* and a request that posts no row
Workloads ==
    (ShortFiles \X ShortFiles) \cup {<<ScenarioFile, ScenarioFile>>}
        \cup (LongFiles \X {NoFile})

Next == Step(Workloads)

Spec == Init /\ [][Next]_vars

\* two short files; a file of two batches that repeats an id, and a file
\* with that id posted at any moment of its import
RaceWorkloads == (ShortFiles \X ShortFiles) \cup ({RepeatLongFile} \X RaceFiles)

NextRace == Step(RaceWorkloads)

SpecRace == Init /\ [][NextRace]_vars

(***************************************************************************)
(* The HTTP routes.  A request carries a credential and the parameters of  *)
(* its route; NULL is a parameter the request does not supply.  FastAPI    *)
(* resolves the dependencies of a route (get_current_user) and validates   *)
(* the parameters before the handler body runs.                            *)
(***************************************************************************)
ContentRoutes == {"list", "by_id", "search", "filters_ratings", "filters_categories",
                  "filters_countries", "stats_overview", "by_rating", "by_category"}
PublicRoutes == {"stats", "filters"}

Creds == {"valid", "invalid", "missing"}

\* app.routers.auth.get_current_user: the user of a valid bearer token, or a
\* 401 for a missing, malformed or expired one
get_current_user(cred) == IF cred = "valid" THEN Val("user") ELSE NULL

\* the routes declared with  current_user: User = Depends(get_current_user)
AllButFilterRatings(route) == route \in ContentRoutes \ {"filters_ratings"}
DependsOnCurrentUser(route) == route \in ContentRoutes

default_limit == 20
min_limit == 1
max_limit == 100
min_offset == 0
default_offset == 0

\* limit: int = Query(20, ge=1, le=100); offset: int = Query(0, ge=0)
LimitOf(req) == IF req.limit = NULL THEN default_limit ELSE CHOOSE l \in req.limit : TRUE
OffsetOf(req) == IF req.offset = NULL THEN default_offset ELSE CHOOSE o \in req.offset : TRUE
PageValid(req) ==
    /\ LimitOf(req) >= min_limit
    /\ LimitOf(req) <= max_limit
    /\ OffsetOf(req) >= min_offset

\* q: str = Query(..., min_length=1)
QueryValid(req) == req.q # NULL /\ \A q \in req.q : Len(q) >= 1

\* query.offset(offset).limit(limit).all()
Page(rows, offset, limit) == SubSeq(rows, offset + 1, Min(offset + limit, Len(rows)))

\* Python truth of an optional parameter: None, '' and 0 are false
Truthy(param) == param # NULL /\ param # Val(<<>>)
TruthyInt(param) == param # NULL /\ param # Val(0)
The(param) == CHOOSE v \in param : TRUE

\* lines 40-65: the WHERE clause get_content builds
ContentFilter(r, req) ==
    /\ Truthy(req.type) => r.type = req.type
    /\ Truthy(req.rating) => r.rating = req.rating
    /\ TruthyInt(req.release_year) => r.release_year = req.release_year
    /\ Truthy(req.country) => ILike(r.country, Wrap(The(req.country)))
    /\ Truthy(req.category) => ILike(r.listed_in, Wrap(The(req.category)))
    /\ Truthy(req.title) => ILike(r.title, Wrap(The(req.title)))
    /\ Truthy(req.director) => ILike(r.director, Wrap(The(req.director)))
    /\ Truthy(req.cast) => ILike(r.cast, Wrap(The(req.cast)))

\* lines 101-110: the WHERE clause search_content builds
SearchFilter(r, req) ==
    LET search_pattern == Wrap(The(req.q))
    IN \/ ILike(r.title, search_pattern)
       \/ ILike(r.director, search_pattern)
       \/ ILike(r.cast, search_pattern)
       \/ ILike(r.description, search_pattern)

\* line 236
RatingFilter(r, req) == r.rating = req.path

\* line 250
CategoryFilter(r, req) == ILike(r.listed_in, Wrap(The(req.path)))

Where(S, P(_)) == SelectSeq(S, P)

Records(rs) == [NoBody EXCEPT !.records = rs]
Names(ns) == [NoBody EXCEPT !.names = ns]
Statistics(st) == [NoBody EXCEPT !.stats = Val(st)]
Facets(fs) == [NoBody EXCEPT !.facets = Val(fs)]

Ok(body) == [status |-> "ok", body |-> body, read |-> TRUE]
AuthError == [status |-> "AuthError", body |-> NoBody, read |-> FALSE]
ValidationError == [status |-> "ValidationError", body |-> NoBody, read |-> FALSE]
NotFound == [status |-> "NotFound", body |-> NoBody, read |-> TRUE]

\* what the framework does around a handler: 401 when the route depends on
\* the current user and there is none, 422 when a parameter is invalid,
\* otherwise the handler's own answer
Serve(req, valid, answer) ==
    IF DependsOnCurrentUser(req.route) /\ get_current_user(req.cred) = NULL THEN AuthError
    ELSE IF ~valid THEN ValidationError
    ELSE answer

\* the server takes a request and answers it
Handle(req, valid, answer) ==
    /\ request' = req
    /\ response' = Serve(req, valid, answer)
    /\ UNCHANGED reader
    /\ UNCHANGED importVars

BaseRequest(route, cred) ==
    [route |-> route, cred |-> cred, type |-> NULL, rating |-> NULL, release_year |-> NULL,
     country |-> NULL, category |-> NULL, title |-> NULL, director |-> NULL, cast |-> NULL,
     q |-> NULL, path |-> NULL, content_id |-> NULL, limit |-> NULL, offset |-> NULL]

(***************************************************************************)
(* The requests of the model, and the stores they are served from: what an *)
(* import of up to MaxStore of the rows below leaves.                      *)
(***************************************************************************)
PG == <<"P", "G">>
Dark == <<"D", "a", "r", "k">>
S3 == <<"s", "3">>
S4 == <<"s", "4">>

ApiRows ==
    { [show_id |-> S1, type |-> Movie, title |-> Dark, director |-> <<"A", "l">>,
       cast |-> <<"B", "o">>, country |-> <<"U", "S", ",", " ", "u", "k">>,
       date_added |-> <<>>, release_year |-> NumYear(20200), rating |-> PG,
       duration |-> <<>>, listed_in |-> <<"A", ",", " ", "b">>, description |-> <<"x">>],
      [show_id |-> S2, type |-> TVShow, title |-> <<"a", "_", "b">>, director |-> <<>>,
       cast |-> <<>>, country |-> <<"U", "S", ",", ",", "U", "K">>,
       date_added |-> <<>>, release_year |-> NumYear(0), rating |-> <<"R">>,
       duration |-> <<>>, listed_in |-> <<"b", ",", ",", "A">>, description |-> <<"9", "%">>],
      [show_id |-> S3, type |-> <<>>, title |-> <<>>, director |-> <<>>,
       cast |-> <<>>, country |-> <<"u", "k", ",", " ">>,
       date_added |-> <<>>, release_year |-> BlankYear, rating |-> <<>>,
       duration |-> <<>>, listed_in |-> <<"A", ",", " ">>, description |-> <<>>],
      [show_id |-> S4, type |-> Movie, title |-> <<"B", "o">>, director |-> Dark,
       cast |-> <<>>, country |-> <<>>,
       date_added |-> <<>>, release_year |-> NumYear(20190), rating |-> PG,
       duration |-> <<>>, listed_in |-> <<"b">>, description |-> <<>>] }

\* the store after importing rows, in order, into an empty store
StoreOf(rows) == AssignIds([i \in 1..Len(rows) |-> NetflixContent(Normalise(rows[i]))], 1)

ApiStores ==
    {StoreOf(t) : t \in {u \in SeqsUpTo(ApiRows, MaxStore) : Cardinality(Range(u)) = Len(u)}}

FilterNames == {"type", "rating", "release_year", "country", "category", "title",
                "director", "cast"}
FilterValues(name) ==
    CASE name = "type" -> {Val(<<>>), Val(Movie)}
      [] name = "rating" -> {Val(<<>>), Val(PG)}
      [] name = "release_year" -> {Val(0), Val(2020)}
      [] name = "country" -> {Val(<<>>), Val(<<"u">>)}
      [] name = "category" -> {Val(<<>>), Val(<<"a">>)}
      [] name = "title" -> {Val(<<>>), Val(<<"d", "a", "r", "k">>)}
      [] name = "director" -> {Val(<<>>), Val(<<"a", "l">>)}
      [] name = "cast" -> {Val(<<>>), Val(<<"b", "o">>)}

Pages ==
    { [limit |-> NULL, offset |-> NULL],
      [limit |-> Val(1), offset |-> NULL],
      [limit |-> Val(1), offset |-> Val(1)],
      [limit |-> Val(2), offset |-> Val(1)],
      [limit |-> Val(max_limit), offset |-> Val(MaxStore)],
      [limit |-> Val(min_limit - 1), offset |-> NULL],
      [limit |-> Val(max_limit + 1), offset |-> NULL],
      [limit |-> NULL, offset |-> Val(min_offset - 1)] }

Paged(req, pg) == [req EXCEPT !.limit = pg.limit, !.offset = pg.offset]

\* GET /content/ with no, one or two filters
FilterChoices == UNION {{<<f, v>> : v \in {NULL} \cup FilterValues(f)} : f \in FilterNames}
ListRequests ==
    { Paged([[BaseRequest("list", c) EXCEPT ![a[1]] = a[2]] EXCEPT ![b[1]] = b[2]], pg) :
        c \in Creds, pg \in Pages, a \in FilterChoices, b \in FilterChoices }

SearchQueries ==
    {NULL, Val(<<>>), Val(<<"d", "a", "r", "k">>), Val(<<"a">>), Val(<<"_">>),
     Val(<<"%">>)}
SearchRequests ==
    {Paged([BaseRequest("search", c) EXCEPT !.q = q], pg) :
        c \in Creds, pg \in Pages, q \in SearchQueries}

ByRatingRequests ==
    {Paged([BaseRequest("by_rating", c) EXCEPT !.path = Val(x)], pg) :
        c \in Creds, pg \in Pages, x \in {PG, <<"p", "g">>, <<"R">>}}

ByCategoryRequests ==
    {Paged([BaseRequest("by_category", c) EXCEPT !.path = Val(x)], pg) :
        c \in Creds, pg \in Pages, x \in {<<"a">>, <<"_">>, <<"b", ",">>}}

ByIdRequests ==
    {[BaseRequest("by_id", c) EXCEPT !.content_id = Val(n)] :
        c \in Creds, n \in 1..(MaxStore + 1)}

PlainRequests(route) == {BaseRequest(route, c) : c \in Creds}

\* GET /content/
GetContent ==
    /\ request = NoRequest
    /\ \E req \in ListRequests :
          Handle(req, PageValid(req),
                 Ok(Records(Page(Where(store, LAMBDA r : ContentFilter(r, req)), OffsetOf(req), LimitOf(req)))))

\* GET /content/{content_id}
GetContentById ==
    /\ request = NoRequest
    /\ \E req \in ByIdRequests :
          LET found == Where(store, LAMBDA r : r.id = req.content_id)
          IN Handle(req, TRUE, IF found = <<>> THEN NotFound ELSE Ok(Records(<<found[1]>>)))

\* GET /content/search/query
SearchContent ==
    /\ request = NoRequest
    /\ \E req \in SearchRequests :
          Handle(req, QueryValid(req) /\ PageValid(req),
                 Ok(Records(Page(Where(store, LAMBDA r : SearchFilter(r, req)), OffsetOf(req), LimitOf(req)))))

\* GET /content/filters/ratings
GetAllRatings ==
    /\ request = NoRequest
    /\ \E req \in PlainRequests("filters_ratings") :
          Handle(req, TRUE, Ok(Names(unique_ratings(store))))

\* GET /content/filters/categories
GetAllCategories ==
    /\ request = NoRequest
    /\ \E req \in PlainRequests("filters_categories") :
          Handle(req, TRUE, Ok(Names(unique_tokens(store, "listed_in"))))

\* GET /content/filters/countries
GetAllCountries ==
    /\ request = NoRequest
    /\ \E req \in PlainRequests("filters_countries") :
          Handle(req, TRUE, Ok(Names(unique_tokens(store, "country"))))

\* GET /content/stats/overview: the same computation as get_statistics(db)
GetStatisticsOverview ==
    /\ request = NoRequest
    /\ \E req \in PlainRequests("stats_overview") :
          \E br \in by_rating_orders(store) : Handle(req, TRUE, Ok(Statistics(get_statistics(store, br))))

\* GET /content/by-rating/{rating}
GetContentByRating ==
    /\ request = NoRequest
    /\ \E req \in ByRatingRequests :
          Handle(req, PageValid(req),
                 Ok(Records(Page(Where(store, LAMBDA r : RatingFilter(r, req)), OffsetOf(req), LimitOf(req)))))

\* GET /content/by-category/{category}
GetContentByCategory ==
    /\ request = NoRequest
    /\ \E req \in ByCategoryRequests :
          Handle(req, PageValid(req),
                 Ok(Records(Page(Where(store, LAMBDA r : CategoryFilter(r, req)), OffsetOf(req), LimitOf(req)))))

\* the response has gone out; the server is ready for the next request
Deliver ==
    /\ request # NoRequest
    /\ response # NoResponse
    /\ request' = NoRequest
    /\ response' = NoResponse
    /\ reader' = NoReader
    /\ UNCHANGED importVars

\* GET /stats (main.py), no credential needed
GetStats ==
    /\ request = NoRequest
    /\ \E req \in PlainRequests("stats") :
          \E br \in by_rating_orders(store) : Handle(req, TRUE, Ok(Statistics(get_statistics(store, br))))

\* GET /filters (main.py), no credential needed
GetFilters ==
    /\ request = NoRequest
    /\ \E req \in PlainRequests("filters") :
          Handle(req, TRUE, Ok(Facets(get_unique_values(store))))

\* the routes are served from a store that imports have left; no import runs
InitApi ==
    /\ store \in ApiStores
    /\ nextId = Len(store) + 1
    /\ autoflush = FALSE
    /\ pc = [p \in Procs |-> "idle"]
    /\ file = [p \in Procs |-> NoFile]
    /\ idx = [p \in Procs |-> 0]
    /\ inserted = [p \in Procs |-> 0]
    /\ skipped = [p \in Procs |-> 0]
    /\ pending = [p \in Procs |-> <<>>]
    /\ flushed = [p \in Procs |-> <<>>]
    /\ blocked = [p \in Procs |-> NULL]
    /\ result = [p \in Procs |-> NoResult]
    /\ base = [p \in Procs |-> 0]
    /\ solo = [p \in Procs |-> TRUE]
    /\ prev = [p \in Procs |-> {}]
    /\ doneFiles = {}
    /\ tally = [p \in Procs |-> NoTally]
    /\ raised = [p \in Procs |-> NoException]
    /\ request = NoRequest
    /\ response = NoResponse
    /\ reader = NoReader

NextApi ==
    \/ GetContent
    \/ GetContentById
    \/ SearchContent
    \/ GetAllRatings
    \/ GetAllCategories
    \/ GetAllCountries
    \/ GetStatisticsOverview
    \/ GetContentByRating
    \/ GetContentByCategory
    \/ GetStats
    \/ GetFilters
    \/ Deliver

SpecApi == InitApi /\ [][NextApi]_vars

(***************************************************************************)
(* Reads that run while an import runs.  The import and the read are       *)
(* served by different worker processes, each with its own Session; every  *)
(* query of a read sees the rows committed when it is made.  A route that  *)
(* makes one query is one step; the statistics handler makes five queries, *)
(* one step each.                                                          *)
(***************************************************************************)
\* the import request of this scenario
Importer == CHOOSE p \in Procs : \A q \in Procs : p <= q

\* the store before the import: empty, or one record whose show_id the file
\* may hold with other attributes
LiveStores == {<<>>, StoreOf(<<CsvRow(S1, TVShow, <<"B">>, NumYear(0))>>)}

\* one request of each route that makes a single query
LiveRequests ==
    { [BaseRequest("list", "valid") EXCEPT !.limit = Val(max_limit)],
      [BaseRequest("by_id", "valid") EXCEPT !.content_id = Val(1)],
      [BaseRequest("search", "valid") EXCEPT !.q = Val(<<"a">>), !.limit = Val(max_limit)],
      BaseRequest("filters_ratings", "valid") }

\* the answer of the handler of req, made from the rows S its query returns
Answer(req, S) ==
    CASE req.route = "list" ->
            Ok(Records(Page(Where(S, LAMBDA r : ContentFilter(r, req)), OffsetOf(req), LimitOf(req))))
      [] req.route = "by_id" ->
            LET found == Where(S, LAMBDA r : r.id = req.content_id)
            IN IF found = <<>> THEN NotFound ELSE Ok(Records(<<found[1]>>))
      [] req.route = "search" ->
            Ok(Records(Page(Where(S, LAMBDA r : SearchFilter(r, req)), OffsetOf(req), LimitOf(req))))
      [] req.route = "filters_ratings" -> Ok(Names(unique_ratings(S)))

\* a read of one query, served while the import is where it is
ReadOnce ==
    /\ request = NoRequest
    /\ \E req \in LiveRequests : Handle(req, TRUE, Answer(req, store))

\* GET /content/stats/overview, line 182: total_count
StatsTotal ==
    /\ request = NoRequest
    /\ request' = BaseRequest("stats_overview", "valid")
    /\ reader' = [NoReader EXCEPT !.pc = 1, !.total_count = Len(store)]
    /\ UNCHANGED response
    /\ UNCHANGED importVars

\* line 183: movie_count
StatsMovies ==
    /\ reader.pc = 1
    /\ reader' = [reader EXCEPT !.pc = 2, !.movie_count = CountWhereType(store, Movie)]
    /\ UNCHANGED <<request, response>>
    /\ UNCHANGED importVars

\* line 184: tv_show_count
StatsTvShows ==
    /\ reader.pc = 2
    /\ reader' = [reader EXCEPT !.pc = 3, !.tv_show_count = CountWhereType(store, TVShow)]
    /\ UNCHANGED <<request, response>>
    /\ UNCHANGED importVars

\* lines 187-196: rating_stats
StatsRatings ==
    /\ reader.pc = 3
    /\ \E br \in by_rating_orders(store) :
          reader' = [reader EXCEPT !.pc = 4, !.rating_stats = br]
    /\ UNCHANGED <<request, response>>
    /\ UNCHANGED importVars

\* lines 199-224: genres_query, the category counts and the response
StatsGenres ==
    /\ reader.pc = 4
    /\ reader' = [reader EXCEPT !.pc = 5]
    /\ response' = Ok(Statistics([total_content |-> reader.total_count,
                                  movies |-> reader.movie_count,
                                  tv_shows |-> reader.tv_show_count,
                                  by_rating |-> reader.rating_stats,
                                  by_category |-> by_category(store)]))
    /\ UNCHANGED request
    /\ UNCHANGED importVars

InitLive ==
    /\ store \in LiveStores
    /\ nextId = Len(store) + 1
    /\ autoflush \in BOOLEAN
    /\ pc = [p \in Procs |-> "idle"]
    /\ file = [p \in Procs |-> NoFile]
    /\ idx = [p \in Procs |-> 0]
    /\ inserted = [p \in Procs |-> 0]
    /\ skipped = [p \in Procs |-> 0]
    /\ pending = [p \in Procs |-> <<>>]
    /\ flushed = [p \in Procs |-> <<>>]
    /\ blocked = [p \in Procs |-> NULL]
    /\ result = [p \in Procs |-> NoResult]
    /\ base = [p \in Procs |-> 0]
    /\ solo = [p \in Procs |-> TRUE]
    /\ prev = [p \in Procs |-> {}]
    /\ doneFiles = {}
    /\ tally = [p \in Procs |-> NoTally]
    /\ raised = [p \in Procs |-> NoException]
    /\ request = NoRequest
    /\ response = NoResponse
    /\ reader = NoReader

NextLive ==
    \/ \E f \in Files : StartImport(Importer, f)
    \/ ReadError(Importer)
    \/ Insert(Importer)
    \/ ProcessRow(Importer)
    \/ Commit(Importer)
    \/ IntegrityError(Importer)
    \/ StoreError(Importer)
    \/ Rollback(Importer)
    \/ TotalCount(Importer)
    \/ MovieCount(Importer)
    \/ TvShowCount(Importer)
    \/ RatingStats(Importer)
    \/ ImportDone(Importer)
    \/ ReadOnce
    \/ StatsTotal
    \/ StatsMovies
    \/ StatsTvShows
    \/ StatsRatings
    \/ StatsGenres
    \/ Deliver

SpecLive == InitLive /\ [][NextLive]_vars

(***************************************************************************)
(* Properties of the importer.                                             *)
(***************************************************************************)
DistinctIds(f) == Cardinality({CsvRowAt(f, i).show_id : i \in 1..FileLen(f)}) = FileLen(f)

\* C1: an import of a file with pairwise distinct ids that starts after an
\* import of the same file has returned successfully inserts nothing, skips
\* every row, and leaves the record count where the first import left it.
IdempotentImport ==
    \A p \in Procs :
        (pc[p] = "done" /\ DistinctIds(file[p])) =>
            \A d \in prev[p] :
                d.file = file[p] =>
                    /\ result[p].status = "success"
                    /\ result[p].records_inserted = 0
                    /\ result[p].records_skipped = FileLen(file[p])
                    /\ solo[p] => result[p].statistics.total_content = d.total

IdempotentImportWitness ==
    \E p \in Procs :
        /\ pc[p] = "done"
        /\ DistinctIds(file[p])
        /\ FileLen(file[p]) >= 3
        /\ \E d \in prev[p] : d.file = file[p] /\ d.total = FileLen(file[p])
        /\ result[p].records_skipped = FileLen(file[p])

\* no two records of the store share a show_id
UniqueShowId == Cardinality(Keys(store)) = Len(store)

\* the number of rows the open transactions of the imports P have INSERTed
RECURSIVE OpenRows(_)
OpenRows(P) ==
    IF P = {} THEN 0
    ELSE LET p == CHOOSE x \in P : TRUE
         IN Len(flushed[p]) + OpenRows(P \ {p})

\* no two rows of the table, committed or INSERTed by an open transaction,
\* share a show_id
UniqueInTable ==
    Cardinality(Keys(store) \cup UNION {Keys(flushed[p]) : p \in Procs})
        = Len(store) + OpenRows(Procs)

\* the unique index refuses an INSERT of import p in this step
RefusedByUniqueIndex(p) ==
    /\ pc[p] # "except"
    /\ pc'[p] = "except"
    /\ \E e \in raised'[p] : e.detail = "IntegrityError"

\* C2 as stated: no two records of the store share a show_id, and a row whose
\* id is already there is skipped: no import ends on the unique index.
DuplicateRowIsSkipped ==
    /\ UniqueShowId
    /\ \A p \in Procs : pc[p] = "failed" => result[p].detail # "IntegrityError"

\* C2 as amended: no two records of the store share a show_id, nor do two
\* rows of the table.  A row whose id the existence query of its import
\* finds is skipped, any other row is added.  The unique index refuses only
\* the INSERT of a row whose id is in the table by then; the import then
\* rolls back and ends with an error, and leaves the store as it was,
\* without the rows of its batch.
ShowIdStoredOnce ==
    /\ [](UniqueShowId /\ UniqueInTable)
    /\ [][\A p \in Procs :
             /\ idx'[p] = idx[p] + 1 =>
                    LET row == DfRow(file[p], idx'[p])
                    IN IF row.show_id \in Keys(store) \cup Keys(flushed[p])
                       THEN /\ skipped'[p] = skipped[p] + 1
                            /\ inserted'[p] = inserted[p]
                            /\ pending'[p] = pending[p]
                       ELSE /\ skipped'[p] = skipped[p]
                            /\ inserted'[p] = inserted[p] + 1
                            /\ pending'[p] = Append(pending[p], NetflixContent(row))
             /\ RefusedByUniqueIndex(p) =>
                    /\ pending[p] # <<>>
                    /\ Head(pending[p]).show_id \in Keys(store) \cup Keys(flushed[p])
                    /\ store' = store
             /\ pc[p] = "except" =>
                    /\ pc'[p] \in {"except", "failed"}
                    /\ pc'[p] = "failed" =>
                           /\ store' = store
                           /\ flushed'[p] = <<>>
                           /\ result'[p].status = "error"
                           /\ \E e \in raised[p] : result'[p].detail = e.detail]_vars

\* an import of the file of two batches that repeats s1 has inserted batch 1
\* and skipped the row of batch 2; the INSERT by the other import of a row
\* of batch 1, which waited for the commit of batch 1, is about to be
\* refused by the unique index
WaitingInsertWitness ==
    \E p, q \in Procs :
        /\ p # q
        /\ file[q] = RepeatLongFile
        /\ pc[q] = "done"
        /\ result[q].records_inserted = batch_size
        /\ result[q].records_skipped = 1
        /\ blocked[p] # NULL
        /\ Head(pending[p]).show_id \in Keys(store)

\* the show_ids an import of f inserts with its first n rows into a store
\* that holds the ids in have: each new id once, in file order
RECURSIVE NewIdsBetween(_, _, _, _)
NewIdsBetween(f, lo, hi, have) ==
    IF lo > hi THEN <<>>
    ELSE IF lo = hi
         THEN IF CsvRowAt(f, lo).show_id \in have THEN <<>> ELSE <<CsvRowAt(f, lo).show_id>>
    ELSE LET mid == (lo + hi) \div 2
             left == NewIdsBetween(f, lo, mid, have)
         IN left \o NewIdsBetween(f, mid + 1, hi, have \cup Range(left))
NewIds(f, n, have) == NewIdsBetween(f, 1, n, have)

\* C3: after an import that ran alone has failed in batch k, the store holds
\* what it held before plus exactly the rows batches 1..k-1 inserted, and the
\* caller got the error.
FailedImportKeepsCommittedBatches ==
    \A p \in Procs :
        (pc[p] = "failed" /\ solo[p]) =>
            LET k == result[p].batch
                n == Min(Max(k - 1, 0) * batch_size, FileLen(file[p]))
                have == {store[i].show_id : i \in 1..base[p]}
            IN /\ result[p].status = "error"
               /\ result[p].total <= Len(store)
               /\ [i \in 1..(result[p].total - base[p]) |-> store[base[p] + i].show_id]
                      = NewIds(file[p], n, have)

\* an import failed in its second batch and the rollback discarded rows
FailedImportWitness ==
    \E p \in Procs :
        /\ pc[p] = "failed"
        /\ solo[p]
        /\ result[p].batch = 2
        /\ result[p].dropped
        /\ result[p].total - base[p] >= batch_size - 1

\* C10: the release_year of every record is NULL or a positive integer.
ReleaseYearPositiveOrNull ==
    \A i \in 1..Len(store) :
        \/ store[i].release_year = NULL
        \/ \E y \in store[i].release_year : y \in Int /\ y > 0

\* rows with blank, non-numeric, zero, negative and fractional cells are stored
ReleaseYearWitness ==
    /\ Len(store) >= Len(YearCells)
    /\ \E i \in 1..Len(store) : store[i].release_year = NULL
    /\ \E i \in 1..Len(store) : store[i].release_year = Val(1)
    /\ \E i \in 1..Len(store) : store[i].release_year = Val(2020)

(***************************************************************************)
(* Properties of the routes.                                               *)
(***************************************************************************)
Served(routes) == request # NoRequest /\ request.route \in routes /\ response.status = "ok"

\* C4: a request to a /content route without a valid credential ends in an
\* AuthError and the handler body, which reads the store, has not run; data
\* and NotFound answers go only to requests with a valid credential.
ContentNeedsCredential ==
    (request # NoRequest /\ request.route \in ContentRoutes) =>
        /\ request.cred # "valid" => (response.status = "AuthError" /\ ~response.read)
        /\ response.read => request.cred = "valid"

ContentNeedsCredentialWitness ==
    /\ request # NoRequest
    /\ request.route = "filters_ratings"
    /\ request.cred = "missing"
    /\ response.status = "AuthError"
    /\ \E i \in 1..Len(store) : store[i].rating # NULL

\* the non-empty trimmed tokens of a comma-joined column, over all records
NonEmptyTokens(S, col) ==
    LET ts == Flatten([i \in 1..Len(S) |->
                          IF S[i][col] = NULL THEN <<>>
                          ELSE LET parts == Split(The(S[i][col]), ",")
                               IN [k \in 1..Len(parts) |-> Strip(parts[k])]])
    IN SelectSeq(ts, LAMBDA t : t # <<>>)

Ascending(xs) == \A i \in 1..(Len(xs) - 1) : StrLess(xs[i], xs[i + 1])

ExactlyTheTokens(xs, S, col) == Ascending(xs) /\ Range(xs) = Range(NonEmptyTokens(S, col))

\* C5: the unique countries and categories are exactly the non-empty trimmed
\* tokens of the column, each once, in ascending order.
FacetsAreTheNonEmptyTokens ==
    /\ Served({"filters_countries"}) => ExactlyTheTokens(response.body.names, store, "country")
    /\ Served({"filters_categories"}) => ExactlyTheTokens(response.body.names, store, "listed_in")
    /\ Served({"filters"}) =>
          /\ ExactlyTheTokens(The(response.body.facets).countries, store, "country")
          /\ ExactlyTheTokens(The(response.body.facets).categories, store, "listed_in")

\* C6: by_category has at most 20 entries, in descending order of count, each
\* a non-empty token with the number of its occurrences, and no token left
\* out occurs more often than one that is listed.
ByCategoryCountsNonEmptyTokens ==
    Served({"stats_overview", "stats"}) =>
        LET bc == The(response.body.stats).by_category
            ts == NonEmptyTokens(store, "listed_in")
            listed == {bc[i].category : i \in 1..Len(bc)}
        IN /\ Len(bc) <= top_categories
           /\ \A i \in 1..(Len(bc) - 1) : bc[i].count >= bc[i + 1].count
           /\ \A i \in 1..Len(bc) :
                 /\ bc[i].category # <<>>
                 /\ bc[i].count = Occurrences(ts, bc[i].category)
           /\ \A i, j \in 1..Len(bc) : i # j => bc[i].category # bc[j].category
           /\ \A t \in Range(ts) \ listed :
                 /\ Len(bc) = top_categories
                 /\ \A i \in 1..Len(bc) : Occurrences(ts, t) <= bc[i].count

\* a record's column holds x as a substring, letter case ignored
HasSubstring(col, x) == \E v \in col : Contains(LowerStr(v), LowerStr(x))

\* the filters a request to GET /content/ supplies, as the interface states them
SuppliedFilters(r, req) ==
    /\ req.type # NULL => r.type = req.type
    /\ req.rating # NULL => r.rating = req.rating
    /\ req.release_year # NULL => r.release_year = req.release_year
    /\ req.country # NULL => HasSubstring(r.country, The(req.country))
    /\ req.category # NULL => HasSubstring(r.listed_in, The(req.category))
    /\ req.title # NULL => HasSubstring(r.title, The(req.title))
    /\ req.director # NULL => HasSubstring(r.director, The(req.director))
    /\ req.cast # NULL => HasSubstring(r.cast, The(req.cast))

\* q occurs literally in the title, the director, the cast or the description
LiteralSearch(r, req) ==
    \/ HasSubstring(r.title, The(req.q))
    \/ HasSubstring(r.director, The(req.q))
    \/ HasSubstring(r.cast, The(req.q))
    \/ HasSubstring(r.description, The(req.q))

\* the predicate of a paginated request
RequestPredicate(r, req) ==
    CASE req.route = "list" -> SuppliedFilters(r, req)
      [] req.route = "search" -> LiteralSearch(r, req)
      [] req.route = "by_rating" -> r.rating = req.path
      [] req.route = "by_category" -> HasSubstring(r.listed_in, The(req.path))

\* C7: a paginated read returns min(L, max(0, M - O)) records, M the number
\* of records that match the request's predicate, and each of them matches.
PageSizeOfMatching ==
    Served({"list", "search", "by_rating", "by_category"}) =>
        LET M == Len(SelectSeq(store, LAMBDA r : RequestPredicate(r, request)))
        IN /\ Len(response.body.records) = Min(LimitOf(request), Max(0, M - OffsetOf(request)))
           /\ \A i \in 1..Len(response.body.records) : RequestPredicate(response.body.records[i], request)

\* C8: search returns the records in which q occurs literally, letter case
\* ignored, in one of the four fields, and no others.
SearchIsLiteralSubstring ==
    Served({"search"}) =>
        response.body.records = Page(SelectSeq(store, LAMBDA r : LiteralSearch(r, request)),
                             OffsetOf(request), LimitOf(request))

\* C9: every record GET /content/ returns satisfies every filter the request
\* supplies, release_year=0 and empty strings included.
ListAppliesEverySuppliedFilter ==
    Served({"list"}) =>
        \A i \in 1..Len(response.body.records) : SuppliedFilters(response.body.records[i], request)

(***************************************************************************)
(* Properties of reads that run while an import runs.                      *)
(***************************************************************************)
\* a step of a read: a request is taken, a query is made or the response
\* goes out
ReadStep == request' # request \/ response' # response \/ reader' # reader

\* C11: no step changes or removes a record that is in the store (a row
\* whose show_id exists is skipped, whatever its other fields), and no step
\* of a read changes the store at all.
NoRecordChangedOrRemoved ==
    [][/\ Len(store') >= Len(store)
       /\ \A i \in 1..Len(store) : store'[i] = store[i]
       /\ ReadStep => store' = store]_vars

\* an import has skipped a row whose show_id was in the store with another
\* type and title, a read has been answered, and the record is as it was
SkippedRowKeptWitness ==
    /\ pc[Importer] = "done"
    /\ result[Importer].records_skipped >= 1
    /\ result[Importer].records_inserted >= 1
    /\ \E i \in 1..FileLen(file[Importer]) :
          /\ CsvRowAt(file[Importer], i).show_id = S1
          /\ CsvRowAt(file[Importer], i).title = <<"A">>
    /\ store[1].show_id = S1
    /\ store[1].title = Val(<<"B">>)
    /\ response.status = "ok"
    /\ response.body.records # <<>>

\* the number of batches of a file
NumBatches(f) == (FileLen(f) + batch_size - 1) \div batch_size

\* The sizes the store has had at the batch boundaries of the import so far:
\* its size when the import started plus the rows the first j batches
\* insert, for every j whose batches are committed.
BoundarySizes ==
    IF pc[Importer] = "idle" THEN {Len(store)}
    ELSE LET f == file[Importer]
             b == base[Importer]
             have == {store[i].show_id : i \in 1..b}
             new(k) == {CsvRowAt(f, i).show_id : i \in 1..k} \ have
         IN {n \in {b + Cardinality(new(Min(j * batch_size, FileLen(f)))) :
                      j \in 0..NumBatches(f)} : n <= Len(store)}

\* the store as it stood when it held n records
Boundary(n) == SubSeq(store, 1, n)

\* a read has been answered
Answered == request # NoRequest /\ response.status \in {"ok", "NotFound"}

\* the answer of a read of one query is the answer over one batch boundary
OneQueryAtBoundary ==
    (Answered /\ request \in LiveRequests) =>
        \E n \in BoundarySizes : response = Answer(request, Boundary(n))

\* C12 as stated: every answered read, the statistics included, is what the
\* handler returns over the store of one batch boundary.
ReadSeesOneBatchBoundary ==
    /\ OneQueryAtBoundary
    /\ (Answered /\ request.route = "stats_overview") =>
          \E n \in BoundarySizes :
             \E br \in by_rating_orders(Boundary(n)) :
                response = Ok(Statistics(get_statistics(Boundary(n), br)))

\* C12 as amended: every query of a read returns what it returns over the
\* store of one batch boundary; the five queries of the statistics handler
\* need not see the same boundary.
EachQuerySeesABatchBoundary ==
    /\ OneQueryAtBoundary
    /\ reader.pc >= 1 => \E n \in BoundarySizes : reader.total_count = Len(Boundary(n))
    /\ reader.pc >= 2 =>
          \E n \in BoundarySizes : reader.movie_count = CountWhereType(Boundary(n), Movie)
    /\ reader.pc >= 3 =>
          \E n \in BoundarySizes : reader.tv_show_count = CountWhereType(Boundary(n), TVShow)
    /\ reader.pc >= 4 =>
          \E n \in BoundarySizes : reader.rating_stats \in by_rating_orders(Boundary(n))
    /\ reader.pc >= 5 =>
          \E n \in BoundarySizes :
             The(response.body.stats).by_category = by_category(Boundary(n))

\* a statistics read whose counts come from two boundaries of a two-batch
\* import: the total from before a commit, the movies from after it
TwoBoundariesWitness ==
    /\ reader.pc = 5
    /\ NumBatches(file[Importer]) = 2
    /\ pc[Importer] \in StatsPcs \cup {"done"}
    /\ reader.total_count < reader.movie_count + reader.tv_show_count

(***************************************************************************)
(* Properties of the result of an import.                                  *)
(***************************************************************************)
\* C13: the step in which an import returns successfully reports
\* records_updated = 0 and records_processed = the rows of the file =
\* records_inserted + records_skipped; its total_content is the size the
\* store had at the count query that follows the last commit; and when no
\* other import overlapped it, that is the size of the store at the return
\* and the store has grown by records_inserted since the import started.
SuccessReportsConsistentCounts ==
    [][\A p \in Procs :
          /\ (pc[p] = "stats" /\ pc'[p] = "movie_count") =>
                 tally'[p].total_count = Len(store)
          /\ (pc[p] = "genres_query" /\ pc'[p] = "done") =>
                 LET r == result'[p]
                 IN /\ r.status = "success"
                    /\ r.records_updated = 0
                    /\ r.records_processed = FileLen(file[p])
                    /\ r.records_processed = r.records_inserted + r.records_skipped
                    /\ r.statistics.total_content = tally[p].total_count
                    /\ r.statistics.total_content <= Len(store)
                    /\ solo[p] => /\ r.statistics.total_content = Len(store)
                                  /\ Len(store) = base[p] + r.records_inserted]_vars

\* an import into a store that held records has returned, having inserted
\* some rows and skipped others
ConsistentCountsWitness ==
    \E p \in Procs :
        /\ pc[p] = "done"
        /\ solo[p]
        /\ base[p] >= 1
        /\ result[p].records_inserted >= 1
        /\ result[p].records_skipped >= 1
        /\ result[p].statistics.total_content = base[p] + result[p].records_inserted

====
